---- MODULE Spec2Model ----
(***************************************************************************)
(* A model of voice_switch.py: the audio callback (producer), the queue,   *)
(* the main loop voice_loop (consumer), the keyword matcher and the three  *)
(* Kasa device operations.  Texts are sequences of one-character strings   *)
(* so that lower(), strip() and the substring test are computed.           *)
(***************************************************************************)
EXTENDS Integers, Sequences, FiniteSets, TLC

VARIABLES
    pc,         \* position of main()/voice_loop
    q,          \* the queue.Queue: chunks put and not yet got
    captured,   \* every block the audio callback was invoked with, in order
    fed,        \* every chunk handed to rec.AcceptWaveform, in order
    data,       \* the chunk voice_loop currently holds (0: none)
    res,        \* what the recognizer returned for the last chunk
    text,       \* j.get("text", "").lower().strip() of the last final result
    call,       \* the device operation in progress or last ended:
                \* [op, ip, n: its number, chunk: the chunk that led to it]
    plug,       \* the SmartPlug session of the operation in progress
    devOn,      \* the relay state of the physical plug
    wire,       \* every request sent to a device, in order
    log,        \* lines printed on stdout (and the interpreter's traceback)
    errlog,     \* lines printed on stderr by the audio callback
    streamOpen, \* the sd.RawInputStream is open
    exitCode    \* exit code of the process (-1 while it runs)

vars == <<pc, q, captured, fed, data, res, text, call, plug, devOn, wire,
          log, errlog, streamOpen, exitCode>>

(***************************************************************************)
(* Bounds                                                                  *)
(***************************************************************************)
MaxChunks == 2      \* blocks the audio driver delivers in a run
MaxFrags == 3       \* fragments concatenated into a matcher input

(***************************************************************************)
(* Configuration                                                           *)
(***************************************************************************)
PLUG_IP == "192.168.0.1"

\* variant: the ON group without the bare keyword "on"
CMD_ON_NoBare == << <<"t","u","r","n"," ","o","n">>,
                    <<"s","w","i","t","c","h"," ","o","n">> >>

CMD_ON == << <<"t","u","r","n"," ","o","n">>,
             <<"s","w","i","t","c","h"," ","o","n">>,
             <<"o","n">> >>

CMD_OFF == << <<"t","u","r","n"," ","o","f","f">>,
              <<"s","w","i","t","c","h"," ","o","f","f">>,
              <<"o","f","f">> >>

CMD_TOGGLE == << <<"t","o","g","g","l","e">>,
                 <<"s","w","i","t","c","h">> >>

(***************************************************************************)
(* str.lower() and str.strip()                                             *)
(***************************************************************************)
UpperCase == <<"A","B","C","D","E","F","G","H","I","J","K","L","M",
               "N","O","P","Q","R","S","T","U","V","W","X","Y","Z">>

LowerCase == <<"a","b","c","d","e","f","g","h","i","j","k","l","m",
               "n","o","p","q","r","s","t","u","v","w","x","y","z">>

Whitespace == {" ", "\t", "\n", "\r"}

LowerChar(c) ==
    IF \E i \in 1..26 : UpperCase[i] = c
    THEN LowerCase[CHOOSE i \in 1..26 : UpperCase[i] = c]
    ELSE c

lower(s) == [i \in 1..Len(s) |-> LowerChar(s[i])]

strip(s) ==
    LET keep == {i \in 1..Len(s) : s[i] \notin Whitespace}
    IN  IF keep = {} THEN <<>>
        ELSE LET first == CHOOSE i \in keep : \A j \in keep : i <= j
                 last  == CHOOSE i \in keep : \A j \in keep : j <= i
             IN  SubSeq(s, first, last)

Normalize(raw) == strip(lower(raw))

(***************************************************************************)
(* contains_keyword and the if/elif chain of voice_loop                    *)
(***************************************************************************)
\* variant: a keyword only counts as a whole word
Occurs_WholeWord(kw, s) ==
    \E i \in 1..(Len(s) - Len(kw) + 1) :
        /\ SubSeq(s, i, i + Len(kw) - 1) = kw
        /\ i = 1 \/ s[i - 1] = " "
        /\ i + Len(kw) - 1 = Len(s) \/ s[i + Len(kw)] = " "

Occurs(kw, s) ==
    \E i \in 1..(Len(s) - Len(kw) + 1) : SubSeq(s, i, i + Len(kw) - 1) = kw

contains_keyword(s, keywords) ==
    \E k \in 1..Len(keywords) : Occurs(keywords[k], s)

\* variant: the OFF group is tried before the ON group
Command_OffFirst(s) ==
    IF contains_keyword(s, CMD_OFF) THEN "off"
    ELSE IF contains_keyword(s, CMD_ON) THEN "on"
    ELSE IF contains_keyword(s, CMD_TOGGLE) THEN "toggle"
    ELSE "none"

\* variant: a text without any keyword falls through to toggle
Command_DefaultToggle(s) ==
    IF contains_keyword(s, CMD_ON) THEN "on"
    ELSE IF contains_keyword(s, CMD_OFF) THEN "off"
    ELSE "toggle"

Command(s) ==
    IF contains_keyword(s, CMD_ON) THEN "on"
    ELSE IF contains_keyword(s, CMD_OFF) THEN "off"
    ELSE IF contains_keyword(s, CMD_TOGGLE) THEN "toggle"
    ELSE "none"

(***************************************************************************)
(* Inputs of the environment                                               *)
(***************************************************************************)
\* texts the recognizer may return in the "text" field of a final result
RawTexts == { <<>>,
              <<" ">>,
              <<"n","o","o","n">>,
              <<" ","O","f","f"," ">>,
              <<"s","w","i","t","c","h">>,
              <<"o","n"," ","o","f","f">>,
              <<"h","i">> }

NoCall == [op |-> "none", ip |-> "", n |-> 0, chunk |-> 0]
NoPlug == [host |-> "", is_on |-> "unknown"]

Line(l, ip, t) == [line |-> l, ip |-> ip, txt |-> t]

Running == pc \notin {"returned", "crashed", "stopped"}

Init ==
    /\ pc = "load_check"
    /\ q = <<>>
    /\ captured = <<>>
    /\ fed = <<>>
    /\ data = 0
    /\ res = [final |-> FALSE, raw |-> <<>>]
    /\ text = <<>>
    /\ call = NoCall
    /\ plug = NoPlug
    /\ devOn \in BOOLEAN
    /\ wire = <<>>
    /\ log = <<>>
    /\ errlog = <<>>
    /\ streamOpen = FALSE
    /\ exitCode = -1

(***************************************************************************)
(* Startup: voice_loop up to the while loop, and how main() ends           *)
(***************************************************************************)
\* an exception other than KeyboardInterrupt leaves main(): traceback, exit 1
Crash ==
    /\ pc' = "crashed"
    /\ log' = Append(log, Line("Traceback", "", <<>>))
    /\ exitCode' = 1

\* variant: the message is printed but the return is missing
LoadCheck_NoReturn ==
    /\ pc = "load_check"
    /\ \E r \in {"ok", "falsy", "raise"} :
         CASE r = "ok" -> pc' = "load" /\ UNCHANGED <<log, exitCode>>
           [] r = "falsy" ->
                /\ pc' = "load"
                /\ log' = Append(log, Line("Model not found", "", <<>>))
                /\ UNCHANGED exitCode
           [] r = "raise" -> Crash
    /\ UNCHANGED <<q, captured, fed, data, res, text, call, plug, devOn, wire,
                   errlog, streamOpen>>

\* if not Model(model_path): print(...); return
LoadCheck ==
    /\ pc = "load_check"
    /\ \E r \in {"ok", "falsy", "raise"} :
         CASE r = "ok" -> pc' = "load" /\ UNCHANGED <<log, exitCode>>
           [] r = "falsy" ->
                /\ pc' = "returned"
                /\ log' = Append(log, Line("Model not found", "", <<>>))
                /\ exitCode' = 0
           [] r = "raise" -> Crash
    /\ UNCHANGED <<q, captured, fed, data, res, text, call, plug, devOn, wire,
                   errlog, streamOpen>>

\* model = Model(model_path); rec = KaldiRecognizer(...); rec.SetWords(False)
LoadModel ==
    /\ pc = "load"
    /\ \E ok \in BOOLEAN :
         IF ok THEN pc' = "open" /\ UNCHANGED <<log, exitCode>> ELSE Crash
    /\ UNCHANGED <<q, captured, fed, data, res, text, call, plug, devOn, wire,
                   errlog, streamOpen>>

\* with sd.RawInputStream(..., callback=audio_callback):
OpenStream ==
    /\ pc = "open"
    /\ \E ok \in BOOLEAN :
         IF ok THEN /\ pc' = "banner"
                    /\ streamOpen' = TRUE
                    /\ UNCHANGED <<log, exitCode>>
         ELSE Crash /\ UNCHANGED streamOpen
    /\ UNCHANGED <<q, captured, fed, data, res, text, call, plug, devOn, wire,
                   errlog>>

\* print("Listening..."); sys.stdout.flush()
Banner ==
    /\ pc = "banner"
    /\ pc' = "get"
    /\ log' = Append(log, Line("Listening", "", <<>>))
    /\ UNCHANGED <<q, captured, fed, data, res, text, call, plug, devOn, wire,
                   errlog, streamOpen, exitCode>>

(***************************************************************************)
(* The producer                                                            *)
(***************************************************************************)
\* variant: a block reported with a status is logged and thrown away
audio_callback_DropOnStatus ==
    /\ streamOpen
    /\ Running
    /\ Len(captured) < MaxChunks
    /\ \E status \in BOOLEAN :
         LET id == Len(captured) + 1 IN
         /\ captured' = Append(captured, [id |-> id, status |-> status])
         /\ errlog' = IF status THEN Append(errlog, [line |-> "Audio status", id |-> id])
                      ELSE errlog
         /\ q' = IF status THEN q ELSE Append(q, id)
    /\ UNCHANGED <<pc, fed, data, res, text, call, plug, devOn, wire, log,
                   streamOpen, exitCode>>

\* variant: the newest block is put at the head of the queue
audio_callback_Prepend ==
    /\ streamOpen
    /\ Running
    /\ Len(captured) < MaxChunks
    /\ \E status \in BOOLEAN :
         LET id == Len(captured) + 1 IN
         /\ captured' = Append(captured, [id |-> id, status |-> status])
         /\ errlog' = IF status THEN Append(errlog, [line |-> "Audio status", id |-> id])
                      ELSE errlog
         /\ q' = <<id>> \o q
    /\ UNCHANGED <<pc, fed, data, res, text, call, plug, devOn, wire, log,
                   streamOpen, exitCode>>

audio_callback ==
    /\ streamOpen
    /\ Running
    /\ Len(captured) < MaxChunks
    /\ \E status \in BOOLEAN :
         LET id == Len(captured) + 1 IN
         /\ captured' = Append(captured, [id |-> id, status |-> status])
         /\ errlog' = IF status THEN Append(errlog, [line |-> "Audio status", id |-> id])
                      ELSE errlog
         /\ q' = Append(q, id)
    /\ UNCHANGED <<pc, fed, data, res, text, call, plug, devOn, wire, log,
                   streamOpen, exitCode>>

(***************************************************************************)
(* The consumer: while True                                                *)
(***************************************************************************)
\* variant: the newest chunk is taken first
Get_Lifo ==
    /\ pc = "get"
    /\ q # <<>>
    /\ data' = q[Len(q)]
    /\ q' = SubSeq(q, 1, Len(q) - 1)
    /\ pc' = "accept"
    /\ UNCHANGED <<captured, fed, res, text, call, plug, devOn, wire, log,
                   errlog, streamOpen, exitCode>>

\* data = q.get()
Get ==
    /\ pc = "get"
    /\ q # <<>>
    /\ data' = Head(q)
    /\ q' = Tail(q)
    /\ pc' = "accept"
    /\ UNCHANGED <<captured, fed, res, text, call, plug, devOn, wire, log,
                   errlog, streamOpen, exitCode>>

\* variant: the "if not text: continue" is missing
AcceptFrom_NoEmptyCheck(finals, raws) ==
    /\ pc = "accept"
    /\ \E f \in finals, x \in raws :
         /\ f \/ x = <<>>
         /\ res' = [final |-> f, raw |-> x]
         /\ fed' = Append(fed, data)
         /\ IF ~f
            THEN pc' = "get" /\ UNCHANGED <<text, log>>
            ELSE /\ text' = Normalize(x)
                 /\ pc' = "dispatch"
                 /\ log' = Append(log, Line("Recognized", "", text'))
    /\ UNCHANGED <<q, captured, data, call, plug, devOn, wire, errlog,
                   streamOpen, exitCode>>

\* if rec.AcceptWaveform(data): ... text = ...lower().strip();
\* if not text: continue; print("Recognized:", text)   else: pass
AcceptFrom(finals, raws) ==
    /\ pc = "accept"
    /\ \E f \in finals, x \in raws :
       LET r == [final |-> f, raw |-> x] IN
         /\ f \/ x = <<>>      \* no result text without a final result
         /\ res' = r
         /\ fed' = Append(fed, data)
         /\ IF ~r.final
            THEN pc' = "get" /\ UNCHANGED <<text, log>>
            ELSE /\ text' = Normalize(r.raw)
                 /\ IF text' = <<>>
                    THEN pc' = "get" /\ UNCHANGED log
                    ELSE /\ pc' = "dispatch"
                         /\ log' = Append(log, Line("Recognized", "", text'))
    /\ UNCHANGED <<q, captured, data, call, plug, devOn, wire, errlog,
                   streamOpen, exitCode>>

Accept == AcceptFrom(BOOLEAN, RawTexts)

\* variant: the operation is scheduled as a task and not awaited
Dispatch_NotAwaited ==
    /\ pc = "dispatch"
    /\ LET c == Command(text) IN
         IF c = "none"
         THEN /\ log' = Append(log, Line("No known command", "", text))
              /\ UNCHANGED call
         ELSE /\ call' = [op |-> c, ip |-> PLUG_IP, n |-> call.n + 1, chunk |-> data]
              /\ UNCHANGED log
    /\ pc' = "get"
    /\ UNCHANGED <<q, captured, fed, data, res, text, plug, devOn, wire,
                   errlog, streamOpen, exitCode>>

\* the if/elif chain: start one device operation or print "No known command"
Dispatch ==
    /\ pc = "dispatch"
    /\ LET c == Command(text) IN
         IF c = "none"
         THEN /\ pc' = "get"
              /\ log' = Append(log, Line("No known command", "", text))
              /\ UNCHANGED call
         ELSE /\ pc' = c \o "_new"
              /\ call' = [op |-> c, ip |-> PLUG_IP, n |-> call.n + 1, chunk |-> data]
              /\ UNCHANGED log
    /\ UNCHANGED <<q, captured, fed, data, res, text, plug, devOn, wire,
                   errlog, streamOpen, exitCode>>

(***************************************************************************)
(* The device operations.  Each await may raise; a command may also raise  *)
(* after the plug has already switched (the reply is lost).                *)
(***************************************************************************)
\* variant: the chain is made of separate ifs, so after turning on a text
\* that also holds an OFF keyword goes on to turn off
Return_FallThrough ==
    IF call.op = "on" /\ contains_keyword(text, CMD_OFF)
    THEN /\ pc' = "off_new"
         /\ plug' = NoPlug
         /\ call' = [op |-> "off", ip |-> PLUG_IP, n |-> call.n + 1, chunk |-> data]
    ELSE /\ pc' = "get"
         /\ plug' = NoPlug
         /\ call' = [call EXCEPT !.op = "none", !.ip = ""]

\* the coroutine returns to voice_loop, which goes back to q.get()
Return ==
    /\ pc' = "get"
    /\ plug' = NoPlug
    /\ call' = [call EXCEPT !.op = "none", !.ip = ""]

\* variant: no except clause, the exception leaves the coroutine
Caught_Reraise(errline) ==
    /\ log' = Append(log, Line("Traceback", "", <<>>))
    /\ pc' = "crashed"
    /\ plug' = NoPlug
    /\ call' = [call EXCEPT !.op = "none", !.ip = ""]

\* variant: the error is printed and the loop is given up
Caught_GiveUp(errline) ==
    /\ log' = Append(log, Line(errline, "", <<>>))
    /\ pc' = "returned"
    /\ plug' = NoPlug
    /\ call' = [call EXCEPT !.op = "none", !.ip = ""]

\* except Exception as e: print("[KASA] Error ...:", e)
Caught(errline) ==
    /\ log' = Append(log, Line(errline, "", <<>>))
    /\ Return

\* plug = SmartPlug(ip)
NewSession(next, errline) ==
    /\ \E ok \in BOOLEAN :
         IF ok
         THEN /\ plug' = [host |-> call.ip, is_on |-> "unknown"]
              /\ pc' = next
              /\ UNCHANGED <<log, call>>
         ELSE Caught(errline)
    /\ UNCHANGED <<wire, devOn>>

\* variant: a failed update is tried a second time before giving up
Update_RetryOnce(next, errline) ==
    /\ wire' = Append(wire, [n |-> call.n, host |-> plug.host, req |-> "update"])
    /\ \E ok \in BOOLEAN :
         IF ok
         THEN /\ plug' = [plug EXCEPT !.is_on = IF devOn THEN "on" ELSE "off"]
              /\ pc' = next
              /\ UNCHANGED <<log, call>>
         ELSE IF wire # <<>> /\ wire[Len(wire)].n = call.n
              THEN Caught(errline)
              ELSE UNCHANGED <<pc, plug, log, call>>
    /\ UNCHANGED devOn

\* await plug.update()
Update(next, errline) ==
    /\ wire' = Append(wire, [n |-> call.n, host |-> plug.host, req |-> "update"])
    /\ \E ok \in BOOLEAN :
         IF ok
         THEN /\ plug' = [plug EXCEPT !.is_on = IF devOn THEN "on" ELSE "off"]
              /\ pc' = next
              /\ UNCHANGED <<log, call>>
         ELSE Caught(errline)
    /\ UNCHANGED devOn

\* await plug.turn_on() / plug.turn_off(), then the success print
Send(req, okline, errline) ==
    /\ wire' = Append(wire, [n |-> call.n, host |-> plug.host, req |-> req])
    /\ \E o \in {"ok", "lost", "fail"} :
         /\ devOn' = IF o = "fail" THEN devOn ELSE (req = "turn_on")
         /\ IF o = "ok"
            THEN log' = Append(log, Line(okline, call.ip, <<>>)) /\ Return
            ELSE Caught(errline)

\* variant: the command is sent without the update before it
kasa_turn_on_NoUpdate ==
    /\ \/ pc = "on_new" /\ NewSession("on_cmd", "Error turning on")
       \/ pc = "on_cmd" /\ Send("turn_on", "Turned ON", "Error turning on")
    /\ UNCHANGED <<q, captured, fed, data, res, text, errlog, streamOpen,
                   exitCode>>

kasa_turn_on ==
    /\ \/ pc = "on_new" /\ NewSession("on_update", "Error turning on")
       \/ pc = "on_update" /\ Update("on_cmd", "Error turning on")
       \/ pc = "on_cmd" /\ Send("turn_on", "Turned ON", "Error turning on")
    /\ UNCHANGED <<q, captured, fed, data, res, text, errlog, streamOpen,
                   exitCode>>

kasa_turn_off ==
    /\ \/ pc = "off_new" /\ NewSession("off_update", "Error turning off")
       \/ pc = "off_update" /\ Update("off_cmd", "Error turning off")
       \/ pc = "off_cmd" /\ Send("turn_off", "Turned OFF", "Error turning off")
    /\ UNCHANGED <<q, captured, fed, data, res, text, errlog, streamOpen,
                   exitCode>>

\* variant: the branches on plug.is_on are swapped
kasa_toggle_Inverted ==
    /\ \/ pc = "toggle_new" /\ NewSession("toggle_update", "Error toggling")
       \/ pc = "toggle_update" /\ Update("toggle_cmd", "Error toggling")
       \/ /\ pc = "toggle_cmd"
          /\ IF plug.is_on = "on"
             THEN Send("turn_on", "Toggled ON", "Error toggling")
             ELSE Send("turn_off", "Toggled OFF", "Error toggling")
    /\ UNCHANGED <<q, captured, fed, data, res, text, errlog, streamOpen,
                   exitCode>>

kasa_toggle ==
    /\ \/ pc = "toggle_new" /\ NewSession("toggle_update", "Error toggling")
       \/ pc = "toggle_update" /\ Update("toggle_cmd", "Error toggling")
       \/ /\ pc = "toggle_cmd"
          /\ IF plug.is_on = "on"
             THEN Send("turn_off", "Toggled OFF", "Error toggling")
             ELSE Send("turn_on", "Toggled ON", "Error toggling")
    /\ UNCHANGED <<q, captured, fed, data, res, text, errlog, streamOpen,
                   exitCode>>

(***************************************************************************)
(* KeyboardInterrupt: main() prints "Stopping...", closes the loop and     *)
(* returns (exit code 0).  Raised inside synchronous code of voice_loop    *)
(* (q.get(), the recognizer, the matcher, SmartPlug(ip)) it unwinds the    *)
(* with block before main() sees it.  Raised while the event loop waits on *)
(* an awaited device call it either surfaces inside the coroutine (same    *)
(* unwinding) or leaves run_until_complete directly, with the coroutine    *)
(* still suspended inside the with block: nothing cancels the task.        *)
(***************************************************************************)
AwaitPcs == {"on_update", "on_cmd", "off_update", "off_cmd",
             "toggle_update", "toggle_cmd"}

Interrupt ==
    /\ Running
    /\ pc' = "stopped"
    /\ log' = Append(log, Line("Stopping", "", <<>>))
    /\ exitCode' = 0
    /\ streamOpen' \in (IF pc \in AwaitPcs THEN {streamOpen, FALSE} ELSE {FALSE})
    /\ UNCHANGED <<q, captured, fed, data, res, text, call, plug, devOn, wire,
                   errlog>>

\* interpreter teardown may destroy the suspended coroutine: GeneratorExit
\* runs the with block's exit.  Python does not promise that it happens.
Finalize ==
    /\ pc = "stopped"
    /\ streamOpen
    /\ streamOpen' = FALSE
    /\ UNCHANGED <<pc, q, captured, fed, data, res, text, call, plug, devOn,
                   wire, log, errlog, exitCode>>

Next ==
    \/ LoadCheck
    \/ LoadModel
    \/ OpenStream
    \/ Banner
    \/ audio_callback
    \/ Get
    \/ Accept
    \/ Dispatch
    \/ kasa_turn_on
    \/ kasa_turn_off
    \/ kasa_toggle
    \/ Interrupt
    \/ Finalize

Spec == Init /\ [][Next]_vars

(***************************************************************************)
(* The matcher on its own: voice_loop holds one chunk and the recognizer   *)
(* finalizes it with any text built from up to MaxFrags fragments.         *)
(***************************************************************************)
Fragments == { <<"o","n">>, <<"o","f","f">>, <<"t","o","g","g","l","e">>,
               <<"s","w","i","t","c","h">>, <<"t","u","r","n">>, <<" ">>,
               <<"n","o">>, <<"t">>, <<"O","N">>, <<"h","i">> }

RECURSIVE Flatten(_)
Flatten(fs) == IF fs = <<>> THEN <<>> ELSE Head(fs) \o Flatten(Tail(fs))

Texts == UNION { {Flatten(f) : f \in [1..n -> Fragments]} : n \in 0..MaxFrags }

InitMatch ==
    /\ pc = "accept"
    /\ q = <<>>
    /\ captured = << [id |-> 1, status |-> FALSE] >>
    /\ fed = <<>>
    /\ data = 1
    /\ res = [final |-> FALSE, raw |-> <<>>]
    /\ text = <<>>
    /\ call = NoCall
    /\ plug = NoPlug
    /\ devOn \in BOOLEAN
    /\ wire = <<>>
    /\ log = << Line("Listening", "", <<>>) >>
    /\ errlog = <<>>
    /\ streamOpen = TRUE
    /\ exitCode = -1

AcceptText == AcceptFrom({TRUE}, Texts)

NextMatch == AcceptText \/ Dispatch

SpecMatch == InitMatch /\ [][NextMatch]_vars

TypeOK ==
    /\ pc \in {"load_check", "load", "open", "banner", "get", "accept",
               "dispatch", "on_new", "on_update", "on_cmd", "off_new",
               "off_update", "off_cmd", "toggle_new", "toggle_update",
               "toggle_cmd", "returned", "crashed", "stopped"}
    /\ Len(captured) <= MaxChunks
    /\ data \in 0..MaxChunks
    /\ res.final \in BOOLEAN
    /\ devOn \in BOOLEAN
    /\ streamOpen \in BOOLEAN
    /\ exitCode \in {-1, 0, 1}

(***************************************************************************)
(* Vocabulary of the properties                                            *)
(***************************************************************************)
DevicePcs == {"on_new", "on_update", "on_cmd", "off_new", "off_update",
              "off_cmd", "toggle_new", "toggle_update", "toggle_cmd"}

StartPcs == {"on_new", "off_new", "toggle_new"}

LastLine == IF log = <<>> THEN Line("", "", <<>>) ELSE log[Len(log)]

Logged(l) == \E i \in 1..Len(log) : log[i].line = l

\* kw stands in s at offset i, character by character
At(kw, s, i) ==
    /\ i + Len(kw) <= Len(s)
    /\ \A j \in 1..Len(kw) : s[i + j] = kw[j]

InText(kw, s) == \E i \in 0..Len(s) : At(kw, s, i)

HasOn(s) == \E k \in 1..3 : InText(CMD_ON[k], s)
HasOff(s) == \E k \in 1..3 : InText(CMD_OFF[k], s)
HasToggle(s) == \E k \in 1..2 : InText(CMD_TOGGLE[k], s)

Blank(s) == \A i \in 1..Len(s) : s[i] \in Whitespace

\* the if/elif chain has just been left for the text of the last result
Decided ==
    \/ pc \in StartPcs
    \/ pc = "get" /\ LastLine.line = "No known command"

Noon == <<"n","o","o","n">>

(***************************************************************************)
(* C1: the groups are tried in the order ON, OFF, TOGGLE on the lowercased,*)
(* trimmed text; the first group with a keyword occurring in it decides    *)
(* the operation that is started, so ON and OFF together give ON.          *)
(***************************************************************************)
C1_PriorityOrder ==
    Decided =>
        LET t == Normalize(res.raw) IN
        /\ text = t
        /\ HasOn(t) => pc = "on_new"
        /\ (~HasOn(t) /\ HasOff(t)) => pc = "off_new"
        /\ (~HasOn(t) /\ ~HasOff(t) /\ HasToggle(t)) => pc = "toggle_new"

C1_Witness ==
    /\ pc = "on_new"
    /\ HasOn(text) /\ HasOff(text)
    /\ text # res.raw

(***************************************************************************)
(* C2: whatever step of a device operation fails, the operation logs one   *)
(* line and returns to the loop, which is at q.get() exactly as after a    *)
(* success: still running, stream open, queue and recognizer untouched.    *)
(***************************************************************************)
KasaLines == {"Turned ON", "Turned OFF", "Toggled ON", "Toggled OFF",
              "Error turning on", "Error turning off", "Error toggling"}

C2_FailureCaught ==
    [][ (pc \in DevicePcs /\ pc' \notin DevicePcs /\ pc' # "stopped") =>
          /\ pc' = "get"
          /\ call'.op = "none"
          /\ plug' = NoPlug
          /\ Len(log') = Len(log) + 1
          /\ log'[Len(log')].line \in KasaLines
          /\ SubSeq(log', 1, Len(log)) = log
          /\ streamOpen' /\ exitCode' = -1
          /\ UNCHANGED <<q, captured, fed, data, res, text, errlog>> ]_vars

C2_Witness ==
    /\ pc = "accept"
    /\ Len(fed) = 1
    /\ LastLine.line \in {"Error turning on", "Error turning off", "Error toggling"}

(***************************************************************************)
(* C3: toggle sends exactly one command, the opposite of the state fetched *)
(* by the update of the same call, and a success line names that direction.*)
(***************************************************************************)
C3_ToggleDirection ==
    /\ [](pc = "toggle_cmd" =>
            /\ plug.is_on \in {"on", "off"}
            /\ wire[Len(wire)] = [n |-> call.n, host |-> PLUG_IP, req |-> "update"])
    /\ [][ (pc = "toggle_cmd" /\ pc' \notin {"toggle_cmd", "stopped"}) =>
             LET req == IF plug.is_on = "on" THEN "turn_off" ELSE "turn_on"
                 ok  == IF plug.is_on = "on" THEN "Toggled OFF" ELSE "Toggled ON"
             IN  /\ wire' = Append(wire, [n |-> call.n, host |-> PLUG_IP, req |-> req])
                 /\ log' = Append(log, log'[Len(log')])
                 /\ log'[Len(log')].line \in {ok, "Error toggling"} ]_vars

C3_Witness ==
    /\ LastLine.line = "Toggled OFF"
    /\ wire[Len(wire)].req = "turn_off"
    /\ ~devOn

(***************************************************************************)
(* C4: while a device operation is outstanding the loop takes nothing from *)
(* the queue, feeds nothing to the recognizer and starts no other          *)
(* operation, although the producer may go on enqueuing.                   *)
(***************************************************************************)
C4_OneOutstanding ==
    /\ [](call.op # "none" => pc \in DevicePcs \cup {"stopped"})
    /\ [](pc \in DevicePcs => ~ENABLED Get /\ ~ENABLED Accept /\ ~ENABLED Dispatch)
    /\ [][ call.op # "none" =>
             /\ fed' = fed /\ data' = data /\ res' = res
             /\ Len(q') >= Len(q)
             /\ call'.n = call.n ]_vars

C4_Witness ==
    /\ pc = "off_cmd"
    /\ call.op = "off"
    /\ q # <<>>

(***************************************************************************)
(* C5: the chunks fed to the recognizer, the chunk in hand and the queue   *)
(* are together exactly the captured chunks in capture order; the callback *)
(* can always enqueue, however far the consumer lags.                      *)
(***************************************************************************)
CapturedIds == [i \in 1..Len(captured) |-> captured[i].id]

InHand == IF pc = "accept" THEN <<data>> ELSE <<>>

C5_QueueFifo ==
    /\ Running => fed \o InHand \o q = CapturedIds
    /\ Len(fed) <= Len(captured)
    /\ \A i \in 1..Len(fed) : fed[i] = captured[i].id
    /\ (Running /\ streamOpen /\ Len(captured) < MaxChunks) => ENABLED audio_callback

C5_Witness ==
    /\ pc \in DevicePcs
    /\ fed = <<1>>
    /\ q = <<2>>

(***************************************************************************)
(* C6: with the loop and the awaited device calls scheduled fairly, every  *)
(* chunk put on the queue is eventually fed to the recognizer unless the   *)
(* process is interrupted, whatever the device operations answer.          *)
(***************************************************************************)
Fairness ==
    /\ WF_vars(Banner)
    /\ WF_vars(Get)
    /\ WF_vars(Accept)
    /\ WF_vars(Dispatch)
    /\ WF_vars(kasa_turn_on)
    /\ WF_vars(kasa_turn_off)
    /\ WF_vars(kasa_toggle)

LiveSpec == Spec /\ Fairness

InSeq(x, s) == \E i \in 1..Len(s) : s[i] = x

C6_EveryChunkFed ==
    \A id \in 1..MaxChunks :
        InSeq(id, q) ~> (InSeq(id, fed) \/ pc = "stopped")

C6_Witness ==
    /\ Len(fed) = 2
    /\ pc = "get"
    /\ \E i \in 1..Len(log) : log[i].line \in
           {"Error turning on", "Error turning off", "Error toggling"}

(***************************************************************************)
(* C7: a chunk without a final result, or with a final text that is empty  *)
(* or only whitespace, sends the loop straight back to q.get(): nothing is *)
(* printed, matched or sent; matching and device operations only ever run  *)
(* on a final, non-blank text.                                             *)
(***************************************************************************)
C7_OnlyFinalNonEmpty ==
    /\ [][ (pc = "accept" /\ fed' # fed /\ (~res'.final \/ Blank(res'.raw))) =>
             /\ pc' = "get"
             /\ UNCHANGED <<log, wire, call, plug, devOn>> ]_vars
    /\ [](pc \in DevicePcs \cup {"dispatch"} =>
             /\ res.final /\ ~Blank(res.raw)
             /\ text # <<>> /\ ~Blank(text))

C7_Witness ==
    /\ pc = "accept"
    /\ fed = <<1>>
    /\ res.final /\ res.raw = <<" ">>
    /\ log = << Line("Listening", "", <<>>) >>

(***************************************************************************)
(* C8: a final non-empty text in which no keyword of any group occurs      *)
(* starts no device operation; "No known command" is printed with the text *)
(* and the loop is back at q.get().                                        *)
(***************************************************************************)
C8_Unrecognized ==
    [][ (pc = "dispatch" /\ pc' # "stopped" /\ pc' # "dispatch"
         /\ ~HasOn(text) /\ ~HasOff(text) /\ ~HasToggle(text)) =>
          /\ pc' = "get"
          /\ log' = Append(log, Line("No known command", "", text))
          /\ UNCHANGED <<wire, call, plug, devOn, fed>> ]_vars

C8_Witness ==
    /\ pc = "accept"
    /\ data = 2
    /\ LastLine = Line("No known command", "", <<"h","i">>)
    /\ wire = <<>>

(***************************************************************************)
(* C9: a keyword matches wherever its characters stand in the text, word   *)
(* boundaries play no part: any text holding a keyword starts an           *)
(* operation, and "noon" starts turn-on.                                   *)
(***************************************************************************)
C9_LiteralSubstring ==
    Decided =>
        /\ (HasOn(text) \/ HasOff(text) \/ HasToggle(text)) => pc \in StartPcs
        /\ text = Noon => pc = "on_new"
        /\ (\E i \in 1..(Len(text) - 1) : text[i] = "o" /\ text[i + 1] = "n")
              => pc = "on_new"

C9_Witness ==
    /\ pc = "on_new"
    /\ text = Noon

(***************************************************************************)
(* C10: once a startup failure has been reported the process is over: the  *)
(* stream was never opened, nothing was captured, dequeued or fed, and no  *)
(* request ever went to the device.                                        *)
(***************************************************************************)
StartupFailed == Logged("Model not found") \/ Logged("Traceback")

C10_StartupFailure ==
    /\ StartupFailed =>
          /\ pc \in {"returned", "crashed"}
          /\ ~streamOpen
          /\ captured = <<>> /\ q = <<>> /\ fed = <<>> /\ data = 0
          /\ wire = <<>> /\ call = NoCall
    /\ pc \in {"returned", "crashed"} => StartupFailed

C10_Witness ==
    /\ pc = "returned"
    /\ LastLine.line = "Model not found"
    /\ exitCode = 0

(***************************************************************************)
(* C11: once an interrupt has stopped the program, the shutdown message is *)
(* the last line printed, the exit code is 0, the audio stream is closed,  *)
(* and nothing is dequeued, fed, printed or sent any more.                 *)
(***************************************************************************)
C11_CleanShutdown ==
    pc = "stopped" =>
        /\ LastLine.line = "Stopping"
        /\ exitCode = 0
        /\ ~streamOpen

(***************************************************************************)
(* C12: a command goes out only on a session created in the same call      *)
(* whose update has succeeded, right after that update; a call whose       *)
(* session creation or update fails sends no command; a success line is    *)
(* printed only by the step whose command switched the plug.               *)
(***************************************************************************)
NewPcs == {"on_new", "off_new", "toggle_new"}
UpdatePcs == {"on_update", "off_update", "toggle_update"}
CmdPcs == {"on_cmd", "off_cmd", "toggle_cmd"}
Commands == {"turn_on", "turn_off"}
SuccessLines == {"Turned ON", "Turned OFF", "Toggled ON", "Toggled OFF"}
ErrorLines == {"Error turning on", "Error turning off", "Error toggling"}

SentBy(n, reqs) == {i \in 1..Len(wire) : wire[i].n = n /\ wire[i].req \in reqs}

C12_FetchBeforeCommand ==
    /\ [](\A i \in 1..Len(wire) : wire[i].req \in Commands =>
             /\ i > 1
             /\ wire[i - 1] = [n |-> wire[i].n, host |-> wire[i].host, req |-> "update"])
    /\ [](pc \in NewPcs \cup UpdatePcs =>
             /\ SentBy(call.n, Commands \cup {"update"}) = {}
             /\ pc \in UpdatePcs => plug = [host |-> call.ip, is_on |-> "unknown"])
    /\ [][ (wire' # wire /\ wire'[Len(wire')].req \in Commands) =>
             /\ pc \in CmdPcs
             /\ plug.host = call.ip /\ plug.is_on = (IF devOn THEN "on" ELSE "off") ]_vars
    /\ [][ (pc \in NewPcs \cup UpdatePcs /\ pc' = "get") =>
             /\ log'[Len(log')].line \in ErrorLines
             /\ Len(log') = Len(log) + 1
             /\ \A i \in 1..Len(wire') : wire'[i].n = call.n => wire'[i].req = "update"
             /\ devOn' = devOn ]_vars
    /\ [][ (log' # log /\ log'[Len(log')].line \in SuccessLines) =>
             /\ pc \in CmdPcs
             /\ Len(wire') = Len(wire) + 1
             /\ wire'[Len(wire')].req \in Commands
             /\ devOn' = (wire'[Len(wire')].req = "turn_on") ]_vars

C12_Witness ==
    /\ LastLine.line = "Turned ON"
    /\ Len(wire) = 3
    /\ wire[1].n = 1 /\ wire[1].req = "update"
    /\ wire[2].n = 2 /\ wire[2].req = "update"
    /\ wire[3].n = 2 /\ wire[3].req = "turn_on"

(***************************************************************************)
(* C13: no call is retried: each call sends at most one update and at most *)
(* one command, and each call that has ended has printed exactly one line, *)
(* its success line or its error line.                                     *)
(***************************************************************************)
KasaLineCount == Cardinality({i \in 1..Len(log) : log[i].line \in KasaLines})

EndedCalls == call.n - (IF call.op = "none" THEN 0 ELSE 1)

C13_NoRetryOneLine ==
    /\ \A n \in 1..call.n :
          /\ Cardinality(SentBy(n, {"update"})) <= 1
          /\ Cardinality(SentBy(n, Commands)) <= 1
    /\ \A i \in 1..Len(wire) : wire[i].n \in 1..call.n
    /\ KasaLineCount = EndedCalls

C13_Witness ==
    /\ call.n = 2 /\ call.op = "none"
    /\ Len(wire) = 3
    /\ LastLine.line \in ErrorLines
    /\ \E i \in 1..Len(log) : log[i].line \in SuccessLines

(***************************************************************************)
(* C14: a block delivered with a driver status is reported on stderr and   *)
(* nothing else differs: its bytes are put on the queue like any block's,  *)
(* the stream stays open, the loop is not disturbed, later blocks are      *)
(* still captured and the block itself reaches the recognizer in turn.     *)
(***************************************************************************)
C14_StatusNonFatal ==
    /\ [][ captured' # captured =>
             LET c == captured'[Len(captured')] IN
             /\ captured' = Append(captured, c)
             /\ q' = Append(q, c.id)
             /\ errlog' = IF c.status
                          THEN Append(errlog, [line |-> "Audio status", id |-> c.id])
                          ELSE errlog
             /\ UNCHANGED <<pc, fed, data, log, wire, streamOpen, exitCode>> ]_vars
    /\ [](Len(errlog) = Cardinality({i \in 1..Len(captured) : captured[i].status}))
    /\ []((Running /\ errlog # <<>>) =>
             /\ streamOpen
             /\ Len(captured) < MaxChunks => ENABLED audio_callback
             /\ \A i \in 1..Len(errlog) :
                   InSeq(errlog[i].id, fed \o InHand \o q))

C14_Witness ==
    /\ Len(captured) = 2
    /\ captured[1].status /\ ~captured[2].status
    /\ fed = <<1, 2>>
    /\ Len(errlog) = 1

(***************************************************************************)
(* C15: every "Recognized" text gets exactly one outcome: one device call  *)
(* or one "No known command" line, also when the text holds keywords of    *)
(* several groups; every call and every request goes to PLUG_IP.           *)
(***************************************************************************)
LineCount(l) == Cardinality({i \in 1..Len(log) : log[i].line = l})

Outcomes == call.n + LineCount("No known command")

C15_OneOutcome ==
    /\ pc = "dispatch" => LineCount("Recognized") = Outcomes + 1
    /\ (Running /\ pc # "dispatch") => LineCount("Recognized") = Outcomes
    /\ LineCount("Recognized") - Outcomes \in {0, 1}
    /\ \A i \in 1..Len(log) :
          /\ log[i].line = "Recognized" =>
                \/ i = Len(log) /\ pc \in DevicePcs \cup {"dispatch", "stopped"}
                \/ /\ i < Len(log)
                   /\ log[i + 1].line \in KasaLines \cup {"No known command", "Stopping"}
                   /\ log[i + 1].line = "No known command" => log[i + 1].txt = log[i].txt
          /\ log[i].line \in KasaLines \cup {"No known command"} =>
                i > 1 /\ log[i - 1].line = "Recognized"
          /\ log[i].line \in SuccessLines => log[i].ip = PLUG_IP
    /\ call.op # "none" => call.ip = PLUG_IP
    /\ \A i \in 1..Len(wire) : wire[i].host = PLUG_IP

C15_Witness ==
    /\ pc = "get"
    /\ text = <<"o","n"," ","o","f","f">>
    /\ call.n = 1
    /\ LastLine = Line("Turned ON", PLUG_IP, <<>>)
    /\ Len(wire) = 2 /\ wire[2].req = "turn_on"

(***************************************************************************)
(* C16: the branch taken is turn-on exactly when the letters "on" stand    *)
(* somewhere in the text, so turn-off and toggle are only reached by texts *)
(* without "on"; "turn on" and "switch on" add nothing to the bare "on".   *)
(***************************************************************************)
HasLettersOn(s) == \E i \in 1..(Len(s) - 1) : s[i] = "o" /\ s[i + 1] = "n"

C16_BareOnDominates ==
    Decided =>
        /\ (pc = "on_new") <=> HasLettersOn(text)
        /\ pc \in {"off_new", "toggle_new"} =>
              /\ ~HasLettersOn(text)
              /\ HasOff(text) \/ HasToggle(text)
        /\ (InText(<<"t","u","r","n"," ","o","n">>, text)
              \/ InText(<<"s","w","i","t","c","h"," ","o","n">>, text))
              => pc = "on_new"

C16_Witness ==
    /\ pc = "on_new"
    /\ Len(text) > 3 /\ SubSeq(text, 1, 3) = <<"o","f","f">>
    /\ InText(<<"t","o","g","g","l","e">>, text)
    /\ ~InText(<<"t","u","r","n"," ","o","n">>, text)
    /\ ~InText(<<"s","w","i","t","c","h"," ","o","n">>, text)

(***************************************************************************)
(* C17: device operations follow the capture order of the chunks that led  *)
(* to them: an operation starts only when the one before it has ended and  *)
(* printed its line, it belongs to a chunk captured later than that one's, *)
(* and requests are sent only by the operation in progress.                *)
(***************************************************************************)
C17_CaptureOrder ==
    /\ [][ call'.n # call.n =>
             /\ call.op = "none" /\ call'.op # "none"
             /\ call'.n = call.n + 1
             /\ KasaLineCount = call.n
             /\ \A i \in 1..Len(wire) : wire[i].n <= call.n
             /\ call'.chunk = data /\ data = fed[Len(fed)]
             /\ captured[call'.chunk].id = call'.chunk
             /\ call'.chunk > call.chunk ]_vars
    /\ [][ wire' # wire =>
             /\ call.op # "none"
             /\ Len(wire') = Len(wire) + 1
             /\ SubSeq(wire', 1, Len(wire)) = wire
             /\ wire'[Len(wire')].n = call.n ]_vars
    /\ [](\A i, j \in 1..Len(wire) : i < j => wire[i].n <= wire[j].n)

C17_Witness ==
    /\ call.n = 2 /\ call.chunk = 2
    /\ Len(wire) = 4
    /\ wire[2].n = 1 /\ wire[3].n = 2
    /\ \E i \in 1..Len(log) : log[i].line \in ErrorLines

====
